---- MODULE Spec2Model ----
(***************************************************************************)
(* Cloud and cloud-shadow masking of Sentinel-2 rasters                     *)
(* (cloud-masking-sentinel2.ipynb): rescale, sentinelCloudScore,            *)
(* ESAcloudMask and shadowMask, over small rasters.                         *)
(*                                                                          *)
(* A raster is a record of named bands over a finite window of pixels; a    *)
(* pixel value is an exact rational n/d with a validity flag (the raster    *)
(* engine's mask: ok = FALSE is a no-data pixel).  Floating point is        *)
(* idealised to exact rational arithmetic; angles are kept as degrees and   *)
(* the trigonometric functions are tabulated to three decimals.             *)
(***************************************************************************)
EXTENDS Integers, Sequences, FiniteSets, TLC

VARIABLES toa, img, ret, op, calls, pending, acc

vars == <<toa, img, ret, op, calls, pending, acc>>

(***************************************************************************)
(* Bounds of the model.                                                     *)
(***************************************************************************)
\* the window of pixels a raster is observed on: WinW x WinH
WinW == 2
WinH == 2
\* calls of the three operations in one session
MaxCalls == 3
\* pixels of a scene that differ from the background spectrum, when each
\* operation is applied once
MaxOdd == 2
\* partial composites (workers) of the per-height reduction
MaxWorkers == 2

Window == (0 .. WinW - 1) \X (0 .. WinH - 1)

(***************************************************************************)
(* Exact rationals.                                                         *)
(***************************************************************************)
Abs(x) == IF x < 0 THEN -x ELSE x

RECURSIVE GCD(_, _)
GCD(a, b) == IF b = 0 THEN a ELSE GCD(b, a % b)

\* n/d in lowest terms with a positive denominator (d # 0)
Rat(n, d) ==
    LET g == GCD(Abs(n), Abs(d))
        s == IF d < 0 THEN -1 ELSE 1
    IN  [n |-> (s * n) \div g, d |-> (s * d) \div g]

RAdd(a, b) == Rat(a.n * b.d + b.n * a.d, a.d * b.d)
RSub(a, b) == Rat(a.n * b.d - b.n * a.d, a.d * b.d)
\* cross-cancelled before multiplying, to keep the integers small
RMul(a, b) ==
    LET g1 == GCD(Abs(a.n), b.d)
        g2 == GCD(Abs(b.n), a.d)
    IN  Rat((a.n \div g1) * (b.n \div g2), (a.d \div g2) * (b.d \div g1))
RInv(a) == Rat(a.d, a.n)
RLess(a, b) == a.n * b.d < b.n * a.d
RIsZero(a) == a.n = 0

\* the nearest integer of n/d, halves away from zero
Round(a) ==
    IF a.n >= 0 THEN (2 * a.n + a.d) \div (2 * a.d)
    ELSE -((2 * (-a.n) + a.d) \div (2 * a.d))

(***************************************************************************)
(* Pixel values of the raster engine: a number, or no data (masked).        *)
(***************************************************************************)
Num(n, d) == [ok |-> TRUE] @@ Rat(n, d)
NoData == [ok |-> FALSE, n |-> 0, d |-> 1]
Val(r) == [ok |-> TRUE, n |-> r.n, d |-> r.d]
Bool(b) == IF b THEN Num(1, 1) ELSE Num(0, 1)
IsTrue(v) == v.ok /\ v.n # 0
IsFalse(v) == v.ok /\ v.n = 0

\* a binary elementwise operation is defined where both inputs are
Lift2(f(_, _), a, b) == IF a.ok /\ b.ok THEN f(a, b) ELSE NoData

PxAdd(a, b) == Val(RAdd(a, b))
PxSub(a, b) == Val(RSub(a, b))
\* the engine's divide returns 0 for a division by 0
PxDiv(a, b) == IF RIsZero(b) THEN Num(0, 1) ELSE Val(RMul(a, RInv(b)))
PxMin(a, b) == IF RLess(b, a) THEN b ELSE a
PxGt(a, b) == Bool(RLess(b, a))
PxEq(a, b) == Bool(a.n = b.n /\ a.d = b.d)
PxAnd(a, b) == Bool(a.n # 0 /\ b.n # 0)

RECURSIVE BitAnd(_, _)
BitAnd(x, y) ==
    IF x = 0 \/ y = 0 THEN 0
    ELSE (x % 2) * (y % 2) + 2 * BitAnd(x \div 2, y \div 2)
PxBitAnd(a, b) == Num(BitAnd(a.n, b.n), 1)

(***************************************************************************)
(* Single-band images over the window, and the engine's elementwise         *)
(* operations on them.                                                      *)
(***************************************************************************)
Image(r) == [p \in Window |-> Val(r)]
Map2(f(_, _), a, b) == [p \in Window |-> Lift2(f, a[p], b[p])]

add(a, b) == Map2(PxAdd, a, b)
subtract(a, b) == Map2(PxSub, a, b)
divide(a, b) == Map2(PxDiv, a, b)
min(a, b) == Map2(PxMin, a, b)
gt(a, b) == Map2(PxGt, a, b)
eq(a, b) == Map2(PxEq, a, b)
And(a, b) == Map2(PxAnd, a, b)
bitwiseAnd(a, b) == Map2(PxBitAnd, a, b)
Not(a) == [p \in Window |-> IF a[p].ok THEN Bool(a[p].n = 0) ELSE NoData]

\* (first - second) / (first + second); no data where the sum is zero
normalizedDifference(a, b) ==
    [p \in Window |->
        IF a[p].ok /\ b[p].ok /\ ~RIsZero(RAdd(a[p], b[p]))
        THEN Val(RMul(RSub(a[p], b[p]), RInv(RAdd(a[p], b[p]))))
        ELSE NoData]

\* the mask moved by (dx, dy) pixels; no data where it comes from off the window
translate(a, dx, dy) ==
    [p \in Window |->
        IF <<p[1] - dx, p[2] - dy>> \in Window
        THEN a[<<p[1] - dx, p[2] - dy>>]
        ELSE NoData]

\* the reducer of ImageCollection.max(): the maximum of the valid inputs
PxMaxReduce(a, b) ==
    IF ~a.ok THEN b
    ELSE IF ~b.ok THEN a
    ELSE IF RLess(a, b) THEN b ELSE a
\* the later image replaces the composite
maxLast(a, b) == b
maxReduce(a, b) == [p \in Window |-> PxMaxReduce(a[p], b[p])]

(***************************************************************************)
(* Rasters: named bands plus the scene metadata and the ground scale.       *)
(***************************************************************************)
Reflectance == {"aerosol", "blue", "green", "red", "red2", "nir", "red4",
                "h2o", "cirrus", "swir1", "swir2"}
BandNames == Reflectance \cup {"QA60"}

\* the names a band is given when its name is already taken
Suffixed ==
    [cloudScore |-> <<"cloudScore", "cloudScore_1", "cloudScore_2",
                      "cloudScore_3", "cloudScore_4">>,
     ESA_clouds |-> <<"ESA_clouds", "ESA_clouds_1", "ESA_clouds_2",
                      "ESA_clouds_3", "ESA_clouds_4">>,
     shadows |-> <<"shadows", "shadows_1", "shadows_2", "shadows_3",
                   "shadows_4">>]

NoImage == [kind |-> "none"]
MissingBand == [kind |-> "error", error |-> "MissingBand"]
IsImage(r) == r.kind = "image"

hasBand(r, b) == b \in DOMAIN r.bands
select(r, b) == r.bands[b]

addBandsOverwrite(dst, name, band) ==
    [dst EXCEPT !.bands =
        [b \in DOMAIN dst.bands \cup {name} |->
            IF b = name THEN band ELSE dst.bands[b]]]

\* addBands with overwrite = false: every band of dst is kept, and the new
\* band takes the first free name
addBands(dst, name, band) ==
    LET free == {i \in 1 .. Len(Suffixed[name]) :
                    Suffixed[name][i] \notin DOMAIN dst.bands}
        k == CHOOSE i \in free : \A j \in free : i <= j
        new == Suffixed[name][k]
    IN  [dst EXCEPT !.bands =
            [b \in DOMAIN dst.bands \cup {new} |->
                IF b = new THEN band ELSE dst.bands[b]]]

(***************************************************************************)
(* renameS2: the raw bands renamed and scaled to reflectance (DN / 10000),  *)
(* QA60 untouched, the solar angles copied to solar_azimuth / solar_zenith. *)
(***************************************************************************)
RawName ==
    [aerosol |-> "B1", blue |-> "B2", green |-> "B3", red |-> "B4",
     red2 |-> "B6", nir |-> "B8", red4 |-> "B8A", h2o |-> "B9",
     cirrus |-> "B10", swir1 |-> "B11", swir2 |-> "B12"]

renameS2(raw) ==
    [kind |-> "image",
     bands |->
        [b \in BandNames |->
            IF b = "QA60" THEN raw.bands["QA60"]
            ELSE divide(raw.bands[RawName[b]], Image(Rat(10000, 1)))],
     solar_azimuth |-> raw.MEAN_SOLAR_AZIMUTH_ANGLE,
     solar_zenith |-> raw.MEAN_SOLAR_ZENITH_ANGLE,
     nominalScale |-> raw.nominalScale]

(***************************************************************************)
(* rescale: linear stretch of an image between two threshold values.        *)
(***************************************************************************)
rescaleNoOffset(im, thresholds) ==
    divide(im, Image(RSub(thresholds[2], thresholds[1])))

rescale(im, thresholds) ==
    divide(subtract(im, Image(thresholds[1])),
           Image(RSub(thresholds[2], thresholds[1])))

(***************************************************************************)
(* sentinelCloudScore: the minimum of the spectral indices of cloudiness.   *)
(***************************************************************************)
\* cloud until proven otherwise
initialScoreTwo == Image(Rat(2, 1))
initialScore == Image(Rat(1, 1))

cloudScoreBand(r) ==
    LET s0 == initialScore
        s1 == min(s0, rescale(select(r, "blue"), <<Rat(1, 10), Rat(5, 10)>>))
        s2 == min(s1, rescale(select(r, "aerosol"), <<Rat(1, 10), Rat(3, 10)>>))
        s3 == min(s2, rescale(add(select(r, "aerosol"), select(r, "cirrus")),
                              <<Rat(15, 100), Rat(2, 10)>>))
        s4 == min(s3, rescale(add(add(select(r, "red"), select(r, "green")),
                                  select(r, "blue")),
                              <<Rat(2, 10), Rat(8, 10)>>))
        ndmi == normalizedDifference(select(r, "red4"), select(r, "swir1"))
        s5 == min(s4, rescale(ndmi, <<Rat(-1, 10), Rat(1, 10)>>))
        ndsi == normalizedDifference(select(r, "green"), select(r, "swir1"))
    IN  min(s5, rescale(ndsi, <<Rat(8, 10), Rat(6, 10)>>))

sentinelCloudScore(r) == addBands(r, "cloudScore", cloudScoreBand(r))

(***************************************************************************)
(* ESAcloudMask: clouds and cirrus from bits 10 and 11 of QA60.             *)
(***************************************************************************)
cloudBitMask == 1024
cirrusBitMask == 2048

esaCloudBandNoCirrus(r) ==
    Not(eq(bitwiseAnd(select(r, "QA60"), Image(Rat(cloudBitMask, 1))),
           Image(Rat(0, 1))))

esaCloudBand(r) ==
    LET qa == select(r, "QA60")
        zero == Image(Rat(0, 1))
        clear == And(eq(bitwiseAnd(qa, Image(Rat(cloudBitMask, 1))), zero),
                     eq(bitwiseAnd(qa, Image(Rat(cirrusBitMask, 1))), zero))
    IN  Not(clear)

ESAcloudMask(r) == addBands(r, "ESA_clouds", esaCloudBand(r))

(***************************************************************************)
(* Angles are kept in units of pi (a rational), so the conversion from      *)
(* degrees is exact; sin, cos and tan are read from a table of the sines of *)
(* the multiples of 15 degrees, to three decimals.                          *)
(***************************************************************************)
Pi == Rat(1, 1)

SinTable ==
    [d \in {0, 15, 30, 45, 60, 75, 90} |->
        CASE d = 0 -> 0
          [] d = 15 -> 259
          [] d = 30 -> 500
          [] d = 45 -> 707
          [] d = 60 -> 866
          [] d = 75 -> 966
          [] d = 90 -> 1000]

SinDeg(d) ==
    LET m == d % 360
    IN  IF m <= 90 THEN SinTable[m]
        ELSE IF m <= 180 THEN SinTable[180 - m]
        ELSE IF m <= 270 THEN -SinTable[m - 180]
        ELSE -SinTable[360 - m]

Degrees(a) == (a.n * 180) \div a.d

sin(a) == Rat(SinDeg(Degrees(a)), 1000)
cos(a) == Rat(SinDeg(Degrees(a) + 90), 1000)
tan(a) == Rat(SinDeg(Degrees(a)), SinDeg(Degrees(a) + 90))

(***************************************************************************)
(* shadowMask: cloud shadows from the cloud mask, the solar geometry and a  *)
(* dark pixel test.                                                         *)
(***************************************************************************)
sequence(start, end, step) ==
    [i \in 1 .. ((end - start) \div step) + 1 |-> start + (i - 1) * step]

cloudHeights == sequence(500, 4000, 500)

cloudScoreThreshold == Rat(5, 10)

\* the selected cloud indicator made binary
cloudMaskOf(r, cloudMaskType) ==
    gt(select(r, cloudMaskType), Image(cloudScoreThreshold))

azimuthNotRotated(r) ==
    RMul(RMul(Rat(r.solar_azimuth, 1), Pi), RInv(Rat(180, 1)))

\* solar geometry (radians, in units of pi)
azimuth(r) ==
    RAdd(RMul(RMul(Rat(r.solar_azimuth, 1), Pi), RInv(Rat(180, 1))),
         RMul(Rat(1, 2), Pi))
zenith(r) ==
    RSub(RMul(Rat(1, 2), Pi),
         RMul(RMul(Rat(r.solar_zenith, 1), Pi), RInv(Rat(180, 1))))

\* x and y components of the shadow vector, in pixels
shadowOffset(r, cloudHeight) ==
    LET shadowVector == RMul(tan(zenith(r)), Rat(cloudHeight, 1))
        scale == RInv(Rat(r.nominalScale, 1))
        x == Round(RMul(RMul(cos(azimuth(r)), shadowVector), scale))
        y == Round(RMul(RMul(sin(azimuth(r)), shadowVector), scale))
    IN  <<x, y>>

\* affine translation of the clouds for one cloud height
potentialShadow(r, cloudMask, cloudHeight) ==
    LET o == shadowOffset(r, cloudHeight)
    IN  translate(cloudMask, o[1], o[2])

potentialShadowStack(r, cloudMask) ==
    [i \in DOMAIN cloudHeights |->
        potentialShadow(r, cloudMask, cloudHeights[i])]

\* ImageCollection.fromImages(stack).max()
RECURSIVE collectionMax(_)
collectionMax(stack) ==
    IF Len(stack) = 0 THEN [p \in Window |-> NoData]
    ELSE maxReduce(collectionMax(SubSeq(stack, 1, Len(stack) - 1)),
                   stack[Len(stack)])

\* (modified) dark pixel detection
darkPixels(reflect) ==
    gt(normalizedDifference(select(reflect, "green"), select(reflect, "swir2")),
       Image(Rat(25, 100)))

shadowsBandKeepClouds(r, cloudMaskType, reflect) ==
    And(collectionMax(potentialShadowStack(r, cloudMaskOf(r, cloudMaskType))),
        darkPixels(reflect))

shadowsBand(r, cloudMaskType, reflect) ==
    LET cloudMask == cloudMaskOf(r, cloudMaskType)
        stackMax == collectionMax(potentialShadowStack(r, cloudMask))
        notClouds == And(stackMax, Not(cloudMask))
    IN  And(notClouds, darkPixels(reflect))

\* the dark pixel test reads the notebook's global toa, not the argument
shadowMask(r, cloudMaskType) ==
    IF ~hasBand(r, cloudMaskType) THEN MissingBand
    ELSE addBands(r, "shadows", shadowsBand(r, cloudMaskType, toa))

(***************************************************************************)
(* Inputs: raw scenes (digital numbers, reflectance x 10000).               *)
(***************************************************************************)
RawBands == {"B1", "B2", "B3", "B4", "B6", "B8", "B8A", "B9", "B10", "B11",
             "B12", "QA60"}

Spectrum(b1, b2, b3, b4, b8a, b10, b11, b12, qa) ==
    [B1 |-> b1, B2 |-> b2, B3 |-> b3, B4 |-> b4, B6 |-> 1000, B8 |-> 2000,
     B8A |-> b8a, B9 |-> 500, B10 |-> b10, B11 |-> b11, B12 |-> b12,
     QA60 |-> qa]

\* a cloud whose green/swir2 difference also passes the dark pixel test
CloudDark == Spectrum(4000, 5000, 6000, 5000, 6000, 1000, 4000, 3000, 1024)
\* a cloud that fails the dark pixel test
CloudBright == Spectrum(4000, 5000, 6000, 5000, 6000, 1000, 4000, 5000, 2048)
\* clear and dark
DarkGround == Spectrum(300, 500, 800, 600, 2000, 0, 1000, 300, 0)
\* clear and not dark
Background == Spectrum(1000, 1500, 1500, 2000, 3000, 0, 2500, 2500, 0)

\* clear, with green = swir2 = 0
ZeroDark == Spectrum(1000, 1500, 0, 2000, 3000, 0, 2500, 0, 0)
\* bright like a cloud, with green = red4 = swir1 = 0
NoSignal == Spectrum(4000, 5000, 0, 5000, 0, 1000, 0, 3000, 0)

OddPalette == {CloudDark, CloudBright, DarkGround}

RawImage(spectra, az, zen, scale) ==
    [kind |-> "image",
     bands |-> [b \in RawBands |-> [p \in Window |-> Num(spectra[p][b], 1)]],
     MEAN_SOLAR_AZIMUTH_ANGLE |-> az,
     MEAN_SOLAR_ZENITH_ANGLE |-> zen,
     nominalScale |-> scale]

Uniform(spectrum) == [p \in Window |-> spectrum]

\* the background with at most k pixels of another spectrum
Scenes(k) ==
    UNION {{[p \in Window |-> IF p \in S THEN f[p] ELSE Background] :
                f \in [S -> OddPalette]} :
            S \in {T \in SUBSET Window : Cardinality(T) <= k}}

Azimuths == {0, 45, 90, 135, 180, 225, 270, 315}
Zeniths == {30, 45, 60}
Scales == {10, 60, 500}

\* spectra of one pixel, around the thresholds of the six indicators
PixelSpectra ==
    {Spectrum(b1, b2, b3, b4, b8a, b10, b11, 1500, 0) :
        b1 \in {0, 2000, 5000}, b2 \in {0, 3000, 6000}, b3 \in {0, 3000, 8000},
        b4 \in {0, 4000}, b8a \in {0, 3000, 9000}, b10 \in {0, 500},
        b11 \in {0, 1000, 3000}}

\* QA60 values: every combination of bits 10 and 11, with other bits set or not
QAValues ==
    {hi + other : hi \in {0, 1024, 2048, 3072},
                  other \in {0, 1, 512, 1023, 4096, 61440, 62463}}

NoOp == [name |-> "none", type |-> "", thresholds |-> <<>>]
Idle == [w \in 1 .. MaxWorkers |-> NoImage]

(***************************************************************************)
(* A session: the global toa is bound to a scene, and the three operations  *)
(* are called on toa or on the raster the previous call returned.           *)
(***************************************************************************)
SessionGeometry == {<<0, 60, 500>>, <<135, 60, 500>>}

\* at most one odd pixel, or one cloud over dark ground, or one cloud over
\* ground with green = swir2 = 0, or one pixel with green = red4 = swir1 = 0
SessionScenes ==
    Scenes(1) \cup
    {[p \in Window |-> IF p = c THEN CloudDark ELSE DarkGround] :
        c \in Window} \cup
    {[p \in Window |-> IF p = c THEN CloudDark ELSE ZeroDark] :
        c \in Window} \cup
    {[p \in Window |-> IF p = c THEN NoSignal ELSE Background] :
        c \in Window}

Init ==
    /\ toa \in {renameS2(RawImage(s, g[1], g[2], g[3])) :
                    s \in SessionScenes, g \in SessionGeometry}
    /\ img = NoImage
    /\ ret = NoImage
    /\ op = NoOp
    /\ calls = 0
    /\ pending = {}
    /\ acc = Idle

Arg(src) == IF src = "toa" THEN toa ELSE ret

CallSentinelCloudScore(src) ==
    /\ calls < MaxCalls
    /\ IsImage(Arg(src))
    /\ img' = Arg(src)
    /\ ret' = sentinelCloudScore(Arg(src))
    /\ op' = [NoOp EXCEPT !.name = "sentinelCloudScore"]
    /\ calls' = calls + 1
    /\ UNCHANGED <<toa, pending, acc>>

CallESAcloudMask(src) ==
    /\ calls < MaxCalls
    /\ IsImage(Arg(src))
    /\ img' = Arg(src)
    /\ ret' = ESAcloudMask(Arg(src))
    /\ op' = [NoOp EXCEPT !.name = "ESAcloudMask"]
    /\ calls' = calls + 1
    /\ UNCHANGED <<toa, pending, acc>>

CallShadowMask(src, cloudMaskType) ==
    /\ calls < MaxCalls
    /\ IsImage(Arg(src))
    /\ img' = Arg(src)
    /\ ret' = shadowMask(Arg(src), cloudMaskType)
    /\ op' = [NoOp EXCEPT !.name = "shadowMask", !.type = cloudMaskType]
    /\ calls' = calls + 1
    /\ UNCHANGED <<toa, pending, acc>>

\* toa = renameS2(img) run again, on another scene of the same geometry
Rebind ==
    /\ calls < MaxCalls
    /\ \E s \in {DarkGround, Background} :
        /\ toa' = renameS2(RawImage(Uniform(s), toa.solar_azimuth,
                                    toa.solar_zenith, toa.nominalScale))
        /\ toa' # toa
    /\ op' = [NoOp EXCEPT !.name = "renameS2"]
    /\ calls' = calls + 1
    /\ UNCHANGED <<img, ret, pending, acc>>

Next ==
    \/ \E src \in {"toa", "ret"} : CallSentinelCloudScore(src)
    \/ \E src \in {"toa", "ret"} : CallESAcloudMask(src)
    \/ \E src \in {"toa", "ret"}, t \in {"cloudScore", "ESA_clouds"} :
            CallShadowMask(src, t)
    \/ Rebind

Spec == Init /\ [][Next]_vars

(***************************************************************************)
(* Each function applied once to the global toa, as the notebook does, over *)
(* wider inputs: pixel spectra around the thresholds, QA60 values, solar    *)
(* geometries, and scenes with up to MaxOdd odd pixels.                     *)
(***************************************************************************)
OneCloud == [p \in Window |-> IF p = <<0, 0>> THEN CloudDark ELSE DarkGround]

OnceInputs ==
    {RawImage(Uniform(s), 0, 60, 500) : s \in PixelSpectra}
    \cup {RawImage(Uniform([Background EXCEPT !.QA60 = q]), 0, 60, 500) :
            q \in QAValues}
    \cup {RawImage(OneCloud, az, zen, sc) :
            az \in Azimuths, zen \in Zeniths, sc \in Scales}
    \cup {RawImage(s, g[1], g[2], g[3]) :
            s \in Scenes(MaxOdd), g \in SessionGeometry}

InitOnce ==
    /\ toa \in {renameS2(raw) : raw \in OnceInputs}
    /\ img = NoImage
    /\ ret = NoImage
    /\ op = NoOp
    /\ calls = 0
    /\ pending = {}
    /\ acc = Idle

\* sentinelCloudScore(toa)
ApplySentinelCloudScore ==
    /\ calls = 0
    /\ img' = toa
    /\ ret' = sentinelCloudScore(toa)
    /\ op' = [NoOp EXCEPT !.name = "sentinelCloudScore"]
    /\ calls' = 1
    /\ UNCHANGED <<toa, pending, acc>>

\* ESAcloudMask(toa)
ApplyESAcloudMask ==
    /\ calls = 0
    /\ img' = toa
    /\ ret' = ESAcloudMask(toa)
    /\ op' = [NoOp EXCEPT !.name = "ESAcloudMask"]
    /\ calls' = 1
    /\ UNCHANGED <<toa, pending, acc>>

\* shadowMask(sentinelCloudScore(toa), 'cloudScore')
ApplyShadowMask ==
    /\ calls = 0
    /\ img' = sentinelCloudScore(toa)
    /\ ret' = shadowMask(sentinelCloudScore(toa), "cloudScore")
    /\ op' = [NoOp EXCEPT !.name = "shadowMask", !.type = "cloudScore"]
    /\ calls' = 1
    /\ UNCHANGED <<toa, pending, acc>>

RescaleThresholds ==
    {<<Rat(1, 10), Rat(5, 10)>>, <<Rat(8, 10), Rat(6, 10)>>,
     <<Rat(3, 10), Rat(3, 10)>>, <<Rat(0, 1), Rat(0, 1)>>}

\* rescale(toa.select([band]), thresholds)
ApplyRescale(band, thresholds) ==
    /\ calls = 0
    /\ img' = [toa EXCEPT !.bands = [b \in {band} |-> select(toa, band)]]
    /\ ret' = [toa EXCEPT !.bands =
                    [b \in {band} |-> rescale(select(toa, band), thresholds)]]
    /\ op' = [NoOp EXCEPT !.name = "rescale", !.type = band,
                          !.thresholds = thresholds]
    /\ calls' = 1
    /\ UNCHANGED <<toa, pending, acc>>

NextOnce ==
    \/ ApplySentinelCloudScore
    \/ ApplyESAcloudMask
    \/ ApplyShadowMask
    \/ \E band \in {"blue", "swir1"}, th \in RescaleThresholds :
            ApplyRescale(band, th)

SpecOnce == InitOnce /\ [][NextOnce]_vars

(***************************************************************************)
(* The potential shadow composite computed in any order: the heights are    *)
(* mapped one at a time, in any order, each translated mask is reduced into *)
(* the partial composite of some worker, and partial composites are merged  *)
(* pairwise until one is left.                                              *)
(***************************************************************************)
Partial(px) == [kind |-> "image", px |-> px]

InitReduce ==
    /\ toa \in {renameS2(RawImage(
                        [p \in Window |->
                            IF p = c THEN CloudDark ELSE Background],
                        135, 60, 500)) : c \in Window}
    /\ img = sentinelCloudScore(toa)
    /\ ret = NoImage
    /\ op = [NoOp EXCEPT !.name = "reduce", !.type = "cloudScore"]
    /\ calls = 0
    /\ pending = DOMAIN cloudHeights
    /\ acc = Idle

\* potentialShadow(cloudHeights[i]), reduced into worker w's composite
MapHeight(i, w) ==
    /\ i \in pending
    /\ LET shifted == potentialShadow(img, cloudMaskOf(img, op.type),
                                      cloudHeights[i])
       IN  acc' = [acc EXCEPT ![w] =
                    IF IsImage(acc[w])
                    THEN Partial(maxReduce(acc[w].px, shifted))
                    ELSE Partial(shifted)]
    /\ pending' = pending \ {i}
    /\ UNCHANGED <<toa, img, ret, op, calls>>

\* two partial composites combined into one
Merge(w1, w2) ==
    /\ w1 # w2
    /\ IsImage(acc[w1])
    /\ IsImage(acc[w2])
    /\ acc' = [acc EXCEPT ![w1] = Partial(maxReduce(acc[w1].px, acc[w2].px)),
                          ![w2] = NoImage]
    /\ UNCHANGED <<toa, img, ret, op, calls, pending>>

NextReduce ==
    \/ \E i \in DOMAIN cloudHeights, w \in 1 .. MaxWorkers : MapHeight(i, w)
    \/ \E w1, w2 \in 1 .. MaxWorkers : Merge(w1, w2)

SpecReduce == InitReduce /\ [][NextReduce]_vars

(***************************************************************************)
(* Properties.                                                              *)
(***************************************************************************)
\* the band the last call added to its argument
NewBand == CHOOSE b \in DOMAIN ret.bands \ DOMAIN img.bands : TRUE
Added(p) == ret.bands[NewBand][p]

Bit(v, i) == (v \div (2 ^ i)) % 2
QA(p) == img.bands["QA60"][p].n

\* C1: for every QA60 value, ESA_clouds is true iff bit 10 or bit 11 of the
\* value is set, and false iff both are zero, whatever the other bits are.
C1_ESACloudsIffBit10Or11 ==
    op.name = "ESAcloudMask" =>
        /\ NewBand = "ESA_clouds"
        /\ \A p \in Window :
            /\ IsTrue(Added(p)) <=> (Bit(QA(p), 10) = 1 \/ Bit(QA(p), 11) = 1)
            /\ IsFalse(Added(p)) <=> (Bit(QA(p), 10) = 0 /\ Bit(QA(p), 11) = 0)

\* cirrus alone, with lower and higher bits set, is a cloud
C1_Witness ==
    /\ op.name = "ESAcloudMask"
    /\ \E p \in Window :
        /\ QA(p) = 2048 + 62463
        /\ IsTrue(Added(p))

(***************************************************************************)
(* The six indicators of the cloud score, as the specification lists them.  *)
(***************************************************************************)
Half == Rat(1, 2)
One == Rat(1, 1)
Refl(p, b) == img.bands[b][p]
Stretch(v, lo, hi) == RMul(RSub(v, lo), RInv(RSub(hi, lo)))
Sum(p, bs) ==
    IF Len(bs) = 2 THEN RAdd(Refl(p, bs[1]), Refl(p, bs[2]))
    ELSE RAdd(RAdd(Refl(p, bs[1]), Refl(p, bs[2])), Refl(p, bs[3]))
HasND(p, a, b) == ~RIsZero(RAdd(Refl(p, a), Refl(p, b)))
ND(p, a, b) ==
    RMul(RSub(Refl(p, a), Refl(p, b)), RInv(RAdd(Refl(p, a), Refl(p, b))))

Defined(p) == HasND(p, "red4", "swir1") /\ HasND(p, "green", "swir1")

Indicators(p) ==
    <<Stretch(Refl(p, "blue"), Rat(1, 10), Rat(5, 10)),
      Stretch(Refl(p, "aerosol"), Rat(1, 10), Rat(3, 10)),
      Stretch(Sum(p, <<"aerosol", "cirrus">>), Rat(15, 100), Rat(20, 100)),
      Stretch(Sum(p, <<"red", "green", "blue">>), Rat(2, 10), Rat(8, 10)),
      Stretch(ND(p, "red4", "swir1"), Rat(-1, 10), Rat(1, 10)),
      Stretch(ND(p, "green", "swir1"), Rat(8, 10), Rat(6, 10))>>

\* x is the least of the rationals of the sequence
IsLeast(x, xs) ==
    /\ \E i \in DOMAIN xs : xs[i] = x
    /\ \A i \in DOMAIN xs : ~RLess(xs[i], x)

Same(v, x) == v.ok /\ v.n = x.n /\ v.d = x.d
IsCloud(v) == v.ok /\ RLess(Half, v)
AllExceedHalf(p) ==
    Defined(p) /\ \A i \in 1 .. 6 : RLess(Half, Indicators(p)[i])

InUnit(v) == v.ok /\ ~RLess(v, Rat(0, 1)) /\ ~RLess(One, v)
ReflectanceInUnit(p) == \A b \in Reflectance : InUnit(Refl(p, b))

C8_EqualThresholdsRaiseError ==
    (op.name = "rescale" /\ op.thresholds[1] = op.thresholds[2]) =>
        ret.kind = "error"

(***************************************************************************)
(* shadowMask.                                                              *)
(***************************************************************************)
Indicator(p) == img.bands[op.type][p]
CloudTrue(p) == Indicator(p).ok /\ RLess(Half, Indicator(p))
CloudFalse(p) == Indicator(p).ok /\ ~RLess(Half, Indicator(p))

Heights == {500 * k : k \in 1 .. 8}

\* the cloud mask translated by the offset of height h is true at p
TranslatedTrue(p, h) ==
    LET o == shadowOffset(img, h)
        q == <<p[1] - o[1], p[2] - o[2]>>
    IN  q \in Window /\ CloudTrue(q)

\* the normalized difference of green and swir2 of raster r exceeds 0.25 at p
DarkAt(r, p) ==
    LET g == r.bands["green"][p]
        s == r.bands["swir2"][p]
    IN  /\ ~RIsZero(RAdd(g, s))
        /\ RLess(Rat(1, 4), RMul(RSub(g, s), RInv(RAdd(g, s))))

ShadowCall == op.name = "shadowMask" /\ IsImage(ret)

\* The shadows band as line 200 computes it: the dark pixel test reads the
\* notebook's toa, whatever raster was passed in.
ShadowsTestedOnToa ==
    ShadowCall =>
        \A p \in Window :
            IsTrue(Added(p)) <=>
                /\ \E h \in Heights : TranslatedTrue(p, h)
                /\ CloudFalse(p)
                /\ DarkAt(toa, p)

\* C4 as stated: a pixel of the shadows band is true iff the cloud mask
\* translated for at least one of the heights 500, 1000, ..., 4000 is true
\* there, the cloud mask is false there, and the normalized difference of
\* green and swir2 of the raster exceeds 0.25 there.
C4_ShadowIffProjectedClearDark ==
    ShadowCall =>
        \A p \in Window :
            IsTrue(Added(p)) <=>
                /\ \E h \in Heights : TranslatedTrue(p, h)
                /\ CloudFalse(p)
                /\ DarkAt(img, p)

\* C5: no pixel is true in both the shadows band and the binarized cloud
\* mask it was computed from.
C5_NeverCloudAndShadow ==
    ShadowCall => \A p \in Window : ~(IsTrue(Added(p)) /\ CloudTrue(p))

\* a cloud pixel that is dark and that a cloud projects onto is no shadow
C5_Witness ==
    /\ ShadowCall
    /\ \E p \in Window :
        /\ CloudTrue(p)
        /\ DarkAt(toa, p)
        /\ \E h \in Heights : TranslatedTrue(p, h)
        /\ ~IsTrue(Added(p))

(***************************************************************************)
(* The offsets of the specification's formula, computed in degrees, and     *)
(* the offsets the notebook's floating point arithmetic gives.              *)
(***************************************************************************)
FormulaOffset(az, zen, scale, h) ==
    LET cosAz == Rat(SinDeg(az + 90 + 90), 1000)
        sinAz == Rat(SinDeg(az + 90), 1000)
        tanZen == Rat(SinDeg(90 - zen), SinDeg(90 - zen + 90))
        length == RMul(tanZen, Rat(h, scale))
    IN  <<Round(RMul(cosAz, length)), Round(RMul(sinAz, length))>>

FloatOffsets(az, zen, scale) ==
    CASE <<az, zen, scale>> = <<0, 45, 10>> ->
            <<<<0, 50>>, <<0, 100>>, <<0, 150>>, <<0, 200>>, <<0, 250>>,
              <<0, 300>>, <<0, 350>>, <<0, 400>>>>
      [] <<az, zen, scale>> = <<135, 60, 500>> ->
            <<<<0, 0>>, <<-1, -1>>, <<-1, -1>>, <<-2, -2>>, <<-2, -2>>,
              <<-2, -2>>, <<-3, -3>>, <<-3, -3>>>>
      [] <<az, zen, scale>> = <<0, 60, 500>> ->
            <<<<0, 1>>, <<0, 1>>, <<0, 2>>, <<0, 2>>, <<0, 3>>, <<0, 3>>,
              <<0, 4>>, <<0, 5>>>>
      [] <<az, zen, scale>> = <<225, 30, 60>> ->
            <<<<10, -10>>, <<20, -20>>, <<31, -31>>, <<41, -41>>,
              <<51, -51>>, <<61, -61>>, <<71, -71>>, <<82, -82>>>>
      [] <<az, zen, scale>> = <<90, 60, 10>> ->
            <<<<-29, 0>>, <<-58, 0>>, <<-87, 0>>, <<-115, 0>>, <<-144, 0>>,
              <<-173, 0>>, <<-202, 0>>, <<-231, 0>>>>
      [] <<az, zen, scale>> = <<315, 45, 60>> ->
            <<<<6, 6>>, <<12, 12>>, <<18, 18>>, <<24, 24>>, <<29, 29>>,
              <<35, 35>>, <<41, 41>>, <<47, 47>>>>
      [] OTHER -> <<>>

\* C6: for each height the cloud mask is translated by
\* (round(cos(az') tan(zen') h / scale), round(sin(az') tan(zen') h / scale))
\* with az' = azimuth + 90 degrees and zen' = 90 degrees - zenith; with
\* azimuth 0, zenith 45, scale 10 and height 1000 the offset is (0, 100).
C6_OffsetFormula ==
    op.name = "shadowMask" =>
        LET az == img.solar_azimuth
            zen == img.solar_zenith
            scale == img.nominalScale
        IN  /\ \A i \in DOMAIN cloudHeights :
                /\ cloudHeights[i] = 500 * i
                /\ shadowOffset(img, cloudHeights[i]) =
                        FormulaOffset(az, zen, scale, cloudHeights[i])
                /\ i \in DOMAIN FloatOffsets(az, zen, scale) =>
                        shadowOffset(img, cloudHeights[i]) =
                            FloatOffsets(az, zen, scale)[i]
            /\ <<az, zen, scale>> = <<0, 45, 10>> =>
                    shadowOffset(img, 1000) = <<0, 100>>

\* azimuth 0, zenith 45, scale 10: the clouds at 1000 m are moved by (0, 100)
C6_Witness ==
    /\ op.name = "shadowMask"
    /\ <<img.solar_azimuth, img.solar_zenith, img.nominalScale>> = <<0, 45, 10>>
    /\ shadowOffset(img, 1000) = <<0, 100>>

\* C7 as stated: the shadows band depends on the arguments only; the dark
\* pixel test is evaluated on the raster passed in.
C7_ShadowsOfArgumentsOnly ==
    ShadowCall => ret.bands[NewBand] = shadowsBand(img, op.type, img)

(***************************************************************************)
(* Frame.                                                                   *)
(***************************************************************************)
Operations == {"sentinelCloudScore", "ESAcloudMask", "shadowMask"}
BandOf(name) ==
    CASE name = "sentinelCloudScore" -> "cloudScore"
      [] name = "ESAcloudMask" -> "ESA_clouds"
      [] name = "shadowMask" -> "shadows"

\* C9 as stated: the raster an operation returns holds every band of its
\* argument with the same pixel values, plus exactly one new band, named
\* cloudScore, ESA_clouds or shadows.
C9_BandsKeptOneAddedNamed ==
    (op.name \in Operations /\ IsImage(ret)) =>
        /\ DOMAIN img.bands \subseteq DOMAIN ret.bands
        /\ \A b \in DOMAIN img.bands : ret.bands[b] = img.bands[b]
        /\ DOMAIN ret.bands \ DOMAIN img.bands = {BandOf(op.name)}

\* C9: the raster an operation returns holds every band of its argument
\* with the same pixel values, plus exactly one new band; the new band is
\* named cloudScore, ESA_clouds or shadows when the argument holds no band
\* of that name, and that name with a numeric suffix when it does; the
\* metadata is kept.
C9_BandsKeptOneAdded ==
    (op.name \in Operations /\ IsImage(ret)) =>
        /\ DOMAIN img.bands \subseteq DOMAIN ret.bands
        /\ \A b \in DOMAIN img.bands : ret.bands[b] = img.bands[b]
        /\ Cardinality(DOMAIN ret.bands \ DOMAIN img.bands) = 1
        /\ BandOf(op.name) \notin DOMAIN img.bands => NewBand = BandOf(op.name)
        /\ BandOf(op.name) \in DOMAIN img.bands =>
                \E i \in 2 .. Len(Suffixed[BandOf(op.name)]) :
                    NewBand = Suffixed[BandOf(op.name)][i]
        /\ BandOf(op.name) \in DOMAIN ret.bands
        /\ ret.solar_azimuth = img.solar_azimuth
        /\ ret.solar_zenith = img.solar_zenith
        /\ ret.nominalScale = img.nominalScale

\* the three operations chained: the result holds the twelve input bands
\* and the three new ones
C9_Witness ==
    /\ op.name \in Operations
    /\ IsImage(ret)
    /\ DOMAIN ret.bands = BandNames \cup {"cloudScore", "ESA_clouds", "shadows"}
    /\ \A b \in BandNames : ret.bands[b] = toa.bands[b]

(***************************************************************************)
(* Reduction order.                                                         *)
(***************************************************************************)
Reduced == pending = {} /\ Cardinality({w \in DOMAIN acc : IsImage(acc[w])}) = 1

\* C10: whatever the order in which the heights are translated and the
\* grouping in which the translated masks are reduced, the composite is the
\* one the notebook computes.
C10_CompositeOrderIndependent ==
    Reduced =>
        \A w \in DOMAIN acc :
            IsImage(acc[w]) =>
                acc[w].px = collectionMax(potentialShadowStack(
                                img, cloudMaskOf(img, op.type)))

\* a composite reduced by more than one worker, with a projected cloud
C10_Witness ==
    /\ Reduced
    /\ IsImage(acc[MaxWorkers])
    /\ \E p, q \in Window :
        /\ IsTrue(acc[MaxWorkers].px[p])
        /\ IsFalse(acc[MaxWorkers].px[q])


(***************************************************************************)
(* Zero denominators.                                                       *)
(***************************************************************************)
ZeroSum(r, p, a, b) == RIsZero(RAdd(r.bands[a][p], r.bands[b][p]))

\* The pixels the functions leave unclassified, with the dark pixel test
\* read where line 200 reads it (the notebook's toa): where toa has
\* green = swir2 = 0 the shadows band has no data, and where the argument
\* has green = swir1 = 0 or red4 = swir1 = 0 cloudScore has no data.
ZeroDenominatorTestedOnToa ==
    /\ (op.name = "sentinelCloudScore" /\ IsImage(ret)) =>
            \A p \in Window :
                (ZeroSum(img, p, "green", "swir1")
                    \/ ZeroSum(img, p, "red4", "swir1")) => ~Added(p).ok
    /\ ShadowCall =>
            \A p \in Window :
                ZeroSum(toa, p, "green", "swir2") => ~Added(p).ok

\* C11 as stated: where a normalized difference has a zero denominator the
\* pixel fails every threshold test: a pixel of the argument with
\* green = swir1 = 0 or red4 = swir1 = 0 is not cloud by cloudScore > 0.5,
\* and a pixel of the argument with green = swir2 = 0 is not a shadow.
C11_ZeroDenominatorIsFalse ==
    /\ (op.name = "sentinelCloudScore" /\ IsImage(ret)) =>
            \A p \in Window :
                (ZeroSum(img, p, "green", "swir1")
                    \/ ZeroSum(img, p, "red4", "swir1")) => ~IsCloud(Added(p))
    /\ ShadowCall =>
            \A p \in Window :
                ZeroSum(img, p, "green", "swir2") => ~IsTrue(Added(p))

====
